---- MODULE Spec2Model ----
(***************************************************************************)
(* Model of scripts/download_pbmc3k.py: a straight-line script that        *)
(* creates data/raw, prints a starting message, fetches the PBMC 3k        *)
(* dataset, writes it to data/raw/pbmc3k.h5ad and prints a completion      *)
(* message.  The filesystem, the fetch and the write are the environment:  *)
(* each may succeed or raise, and an exception is never caught.            *)
(* Standard output is assumed writable (print does not raise).             *)
(***************************************************************************)
EXTENDS Integers, Sequences, FiniteSets, TLC

\* ---------------------------------------------------------------- bounds
\* largest number of cells of a fetched dataset
MaxCells == 2
\* number of successive invocations of the script on the same directory
MaxRuns == 2

\* ------------------------------------------------------------- constants
\* line 5: output_path = "data/raw", as its path components
output_path == <<"data", "raw">>
\* line 13: the file name joined to output_path
FileName == "pbmc3k.h5ad"
\* line 9
StartMsg == <<"Downloading PBMC 3k dataset...">>
\* first byte of the HDF5 signature every .h5ad file starts with
H5Sig == 137
\* values a cell of the data matrix may take
CellValues == {0, 1}

\* ------------------------------------------------------------ data model
\* the datasets sc.datasets.pbmc3k() may return: opaque matrices, here the
\* sequence of their cells
Datasets == UNION {[1..n -> CellValues] : n \in 0..MaxCells}

\* what adata.write stores for dataset d: the container signature, then d
Serialize(d) == <<H5Sig>> \o d

\* os.path.join(a, b) on component sequences
join(a, b) == Append(a, b)

\* line 16: f"Dataset saved to {save_path}"
SavedMsg(p) == <<"Dataset saved to", p>>

\* the paths the script can touch
Paths == {SubSeq(join(output_path, FileName), 1, k) : k \in 1..(Len(output_path) + 1)}

Absent == [kind |-> "absent", content |-> <<>>]
Dir == [kind |-> "dir", content |-> <<>>]
File(c) == [kind |-> "file", content |-> c]

exists(f, p) == f[p].kind # "absent"
isdir(f, p) == f[p].kind = "dir"
isfile(f, p) == f[p].kind = "file"
dirname(p) == SubSeq(p, 1, Len(p) - 1)

\* os.mkdir(name): one directory, parent must be a directory; denied is the
\* environment refusing the creation (permissions)
mkdir(f, name, denied) ==
    LET head == dirname(name) IN
    IF exists(f, name) THEN [fs |-> f, err |-> "EEXIST"]
    ELSE IF head # <<>> /\ ~exists(f, head) THEN [fs |-> f, err |-> "ENOENT"]
    ELSE IF head # <<>> /\ ~isdir(f, head) THEN [fs |-> f, err |-> "ENOTDIR"]
    ELSE IF denied THEN [fs |-> f, err |-> "EACCES"]
    ELSE [fs |-> [f EXCEPT ![name] = Dir], err |-> ""]

\* os.makedirs(name, exist_ok): create missing parents first, then the leaf;
\* an error of the leaf mkdir is swallowed only when exist_ok and the leaf
\* is a directory.  failAt = k makes the creation of the k-th component be
\* denied (0: nothing is denied).
RECURSIVE makedirs(_, _, _, _)
makedirs(f, name, exist_ok, failAt) ==
    LET head == dirname(name)
        r == IF head # <<>> /\ ~exists(f, head)
             THEN makedirs(f, head, exist_ok, failAt)
             ELSE [fs |-> f, err |-> ""]
    IN  IF r.err # "" THEN r
        ELSE LET m == mkdir(r.fs, name, failAt = Len(name)) IN
             IF m.err # "" /\ exist_ok /\ isdir(r.fs, name)
             THEN [fs |-> r.fs, err |-> ""]
             ELSE m

\* adata.write(path) opens the file for writing (truncating what is there)
\* and writes the container.  It raises when the parent is not a directory.
\* opened = FALSE: the open raised and nothing was touched; otherwise
\* `written` bytes reached the file, and the call returns normally exactly
\* when all of them did.  (write_h5ad_append: the file opened in append
\* mode, keeping what was there.)
write_h5ad_append(f, path, d, opened, written) ==
    LET full == Serialize(d) IN
    IF ~isdir(f, dirname(path)) THEN [fs |-> f, err |-> "ENOENT"]
    ELSE IF ~opened THEN [fs |-> f, err |-> "EACCES"]
    ELSE [fs |-> [f EXCEPT ![path] = File(f[path].content \o SubSeq(full, 1, written))],
          err |-> IF written = Len(full) THEN "" ELSE "EIO"]

write_h5ad(f, path, d, opened, written) ==
    LET full == Serialize(d) IN
    IF ~isdir(f, dirname(path)) THEN [fs |-> f, err |-> "ENOENT"]
    ELSE IF ~opened THEN [fs |-> f, err |-> "EACCES"]
    ELSE [fs |-> [f EXCEPT ![path] = File(SubSeq(full, 1, written))],
          err |-> IF written = Len(full) THEN "" ELSE "EIO"]

\* ----------------------------------------------------------------- state
VARIABLES
    fs,         \* the filesystem below the working directory
    pc,         \* the statement the interpreter is at
    stdout,     \* the lines printed by this run
    adata,      \* the name adata: <<>> unbound, <<d>> bound to dataset d
    save_path,  \* the name save_path: <<>> until line 13
    exitCode,   \* <<>> while running, <<c>> once the process has exited
    trace,      \* the statements this run has executed, with their outcome
    fetched,    \* what pbmc3k() returned to this run: <<>> or <<d>>
    run,        \* the number of the current invocation
    fs0,        \* the filesystem when the current invocation started
    prevExit    \* the exit code of the previous invocation, <<>> if none

vars == <<fs, pc, stdout, adata, save_path, exitCode, trace, fetched, run, fs0, prevExit>>

Ev(s, ok) == [step |-> s, ok |-> ok]

\* the contents a file may already have at the destination
InitContents == {<<>>} \cup {Serialize(d) : d \in Datasets}

\* the filesystems the script may be started on
InitFs ==
    {f \in [Paths -> {Absent, Dir} \cup {File(c) : c \in InitContents}] :
        \A p \in Paths :
            /\ exists(f, p) /\ dirname(p) # <<>> => isdir(f, dirname(p))
            /\ isdir(f, p) => Len(p) <= Len(output_path)
            /\ isfile(f, p) /\ Len(p) <= Len(output_path) => f[p].content = <<>>}

Init ==
    /\ fs \in InitFs
    /\ fs0 = fs
    /\ pc = "makedirs"
    /\ stdout = <<>>
    /\ adata = <<>>
    /\ save_path = <<>>
    /\ exitCode = <<>>
    /\ trace = <<>>
    /\ fetched = <<>>
    /\ run = 1
    /\ prevExit = <<>>

\* os.makedirs(output_path) without exist_ok
MakedirsNoExistOk ==
    /\ pc = "makedirs"
    /\ \E failAt \in 0..Len(output_path) :
        LET r == makedirs(fs, output_path, FALSE, failAt) IN
        /\ fs' = r.fs
        /\ pc' = IF r.err = "" THEN "print1" ELSE "raise"
        /\ trace' = Append(trace, Ev("makedirs", r.err = ""))
    /\ UNCHANGED <<stdout, adata, save_path, exitCode, fetched, run, fs0, prevExit>>

\* line 6: os.makedirs(output_path, exist_ok=True)
Makedirs ==
    /\ pc = "makedirs"
    /\ \E failAt \in 0..Len(output_path) :
        LET r == makedirs(fs, output_path, TRUE, failAt) IN
        /\ fs' = r.fs
        /\ pc' = IF r.err = "" THEN "print1" ELSE "raise"
        /\ trace' = Append(trace, Ev("makedirs", r.err = ""))
    /\ UNCHANGED <<stdout, adata, save_path, exitCode, fetched, run, fs0, prevExit>>

\* the starting message left out before the fetch
PrintStartSilent ==
    /\ pc = "print1"
    /\ pc' = "fetch"
    /\ trace' = Append(trace, Ev("print1", TRUE))
    /\ UNCHANGED <<fs, stdout, adata, save_path, exitCode, fetched, run, fs0, prevExit>>

\* line 9: print("Downloading PBMC 3k dataset...")
PrintStart ==
    /\ pc = "print1"
    /\ stdout' = Append(stdout, StartMsg)
    /\ pc' = "fetch"
    /\ trace' = Append(trace, Ev("print1", TRUE))
    /\ UNCHANGED <<fs, adata, save_path, exitCode, fetched, run, fs0, prevExit>>

\* line 10: adata = sc.datasets.pbmc3k() returns a dataset
FetchOk ==
    /\ pc = "fetch"
    /\ \E d \in Datasets :
        /\ adata' = <<d>>
        /\ fetched' = <<d>>
    /\ pc' = "join"
    /\ trace' = Append(trace, Ev("fetch", TRUE))
    /\ UNCHANGED <<fs, stdout, save_path, exitCode, run, fs0, prevExit>>

\* the fetch error caught and replaced by an empty dataset
FetchRaiseCaught ==
    /\ pc = "fetch"
    /\ adata' = << <<>> >>
    /\ pc' = "join"
    /\ trace' = Append(trace, Ev("fetch", FALSE))
    /\ UNCHANGED <<fs, stdout, save_path, exitCode, fetched, run, fs0, prevExit>>

\* the destination opened for writing before the fetch is attempted
FetchRaiseTruncating ==
    /\ pc = "fetch"
    /\ fs' = [fs EXCEPT ![join(output_path, FileName)] = File(<<>>)]
    /\ pc' = "raise"
    /\ trace' = Append(trace, Ev("fetch", FALSE))
    /\ UNCHANGED <<stdout, adata, save_path, exitCode, fetched, run, fs0, prevExit>>

\* line 10: sc.datasets.pbmc3k() raises; adata is never bound
FetchRaise ==
    /\ pc = "fetch"
    /\ pc' = "raise"
    /\ trace' = Append(trace, Ev("fetch", FALSE))
    /\ UNCHANGED <<fs, stdout, adata, save_path, exitCode, fetched, run, fs0, prevExit>>

\* line 13: save_path = os.path.join(output_path, "pbmc3k.h5ad")
JoinPath ==
    /\ pc = "join"
    /\ save_path' = join(output_path, FileName)
    /\ pc' = "write"
    /\ UNCHANGED <<fs, stdout, adata, exitCode, trace, fetched, run, fs0, prevExit>>

\* the write skipped when a file is already at the destination
WriteIfMissing ==
    /\ pc = "write"
    /\ \E opened \in BOOLEAN, written \in 0..Len(Serialize(adata[1])) :
        LET r == IF isfile(fs, save_path) THEN [fs |-> fs, err |-> ""]
                 ELSE write_h5ad(fs, save_path, adata[1], opened, written) IN
        /\ fs' = r.fs
        /\ pc' = IF r.err = "" THEN "print2" ELSE "raise"
        /\ trace' = Append(trace, Ev("write", r.err = ""))
    /\ UNCHANGED <<stdout, adata, save_path, exitCode, fetched, run, fs0, prevExit>>

\* the write error caught: the script goes on to the completion message
WriteCaught ==
    /\ pc = "write"
    /\ \E opened \in BOOLEAN, written \in 0..Len(Serialize(adata[1])) :
        LET r == write_h5ad(fs, save_path, adata[1], opened, written) IN
        /\ fs' = r.fs
        /\ pc' = "print2"
        /\ trace' = Append(trace, Ev("write", r.err = ""))
    /\ UNCHANGED <<stdout, adata, save_path, exitCode, fetched, run, fs0, prevExit>>

\* the write retried after a failure
WriteRetry ==
    /\ pc = "write"
    /\ \E opened \in BOOLEAN, written \in 0..Len(Serialize(adata[1])) :
        LET r == write_h5ad(fs, save_path, adata[1], opened, written) IN
        /\ fs' = r.fs
        /\ pc' = IF r.err = "" THEN "print2" ELSE "write"
        /\ trace' = Append(trace, Ev("write", r.err = ""))
    /\ UNCHANGED <<stdout, adata, save_path, exitCode, fetched, run, fs0, prevExit>>

\* the dataset filtered (its last cell dropped) before it is written
WriteFiltered ==
    /\ pc = "write"
    /\ \E opened \in BOOLEAN, written \in 0..Len(Serialize(adata[1])) :
        LET d == adata[1]
            kept == SubSeq(d, 1, Len(d) - 1)
            r == write_h5ad(fs, save_path, kept, opened,
                            IF written > Len(Serialize(kept)) THEN Len(Serialize(kept)) ELSE written) IN
        /\ fs' = r.fs
        /\ pc' = IF r.err = "" THEN "print2" ELSE "raise"
        /\ trace' = Append(trace, Ev("write", r.err = ""))
    /\ UNCHANGED <<stdout, adata, save_path, exitCode, fetched, run, fs0, prevExit>>

\* line 14: adata.write(save_path)
Write ==
    /\ pc = "write"
    /\ \E opened \in BOOLEAN, written \in 0..Len(Serialize(adata[1])) :
        LET r == write_h5ad(fs, save_path, adata[1], opened, written) IN
        /\ fs' = r.fs
        /\ pc' = IF r.err = "" THEN "print2" ELSE "raise"
        /\ trace' = Append(trace, Ev("write", r.err = ""))
    /\ UNCHANGED <<stdout, adata, save_path, exitCode, fetched, run, fs0, prevExit>>

\* line 16: print(f"Dataset saved to {save_path}")
PrintSaved ==
    /\ pc = "print2"
    /\ stdout' = Append(stdout, SavedMsg(save_path))
    /\ pc' = "exit"
    /\ trace' = Append(trace, Ev("print2", TRUE))
    /\ UNCHANGED <<fs, adata, save_path, exitCode, fetched, run, fs0, prevExit>>

\* end of the module: the interpreter exits with status 0
Exit ==
    /\ pc = "exit"
    /\ pc' = "done"
    /\ exitCode' = <<0>>
    /\ UNCHANGED <<fs, stdout, adata, save_path, trace, fetched, run, fs0, prevExit>>

\* a handler that removes the destination file before the process exits
TerminateCleanup ==
    /\ pc = "raise"
    /\ pc' = "done"
    /\ exitCode' = <<1>>
    /\ fs' = [p \in Paths |-> IF p = join(output_path, FileName) THEN Absent ELSE fs[p]]
    /\ UNCHANGED <<stdout, adata, save_path, trace, fetched, run, fs0, prevExit>>

\* an exception reached the top level: no handler exists in the script, the
\* interpreter prints the traceback and exits with status 1
Terminate ==
    /\ pc = "raise"
    /\ pc' = "done"
    /\ exitCode' = <<1>>
    /\ UNCHANGED <<fs, stdout, adata, save_path, trace, fetched, run, fs0, prevExit>>

\* the script is invoked again in the same working directory: a fresh
\* process on the filesystem the previous one left
Rerun ==
    /\ pc = "done"
    /\ run < MaxRuns
    /\ run' = run + 1
    /\ prevExit' = exitCode
    /\ fs0' = fs
    /\ pc' = "makedirs"
    /\ stdout' = <<>>
    /\ adata' = <<>>
    /\ save_path' = <<>>
    /\ exitCode' = <<>>
    /\ trace' = <<>>
    /\ fetched' = <<>>
    /\ UNCHANGED fs

Next ==
    \/ Makedirs
    \/ PrintStart
    \/ FetchOk
    \/ FetchRaise
    \/ JoinPath
    \/ Write
    \/ PrintSaved
    \/ Exit
    \/ Terminate
    \/ Rerun

Spec == Init /\ [][Next]_vars

\* the interpreter always finishes unwinding an exception and always exits
\* once the last statement has run
FairSpec == Spec /\ WF_vars(Terminate) /\ WF_vars(Exit)

\* ------------------------------------------------------------ properties
\* the destination file of the script
dest == join(output_path, FileName)
\* the fixed order of the statements with an effect
Order == <<"makedirs", "print1", "fetch", "write", "print2">>

Ran(s) == \E i \in 1..Len(trace) : trace[i].step = s
Succeeded(s) == \E i \in 1..Len(trace) : trace[i].step = s /\ trace[i].ok
Failed(s) == \E i \in 1..Len(trace) : trace[i].step = s /\ ~trace[i].ok
AnyFailed == \E i \in 1..Len(trace) : ~trace[i].ok
Printed(m) == \E i \in 1..Len(stdout) : stdout[i] = m
Truncated(c, d) == \E k \in 0..(Len(Serialize(d)) - 1) : c = SubSeq(Serialize(d), 1, k)

\* C1: a finished run in which no step failed leaves the directory data/raw,
\* a non-empty file data/raw/pbmc3k.h5ad, and exit code 0, whatever the
\* filesystem it started on.
C1_SuccessfulRun ==
    (pc = "done" /\ ~AnyFailed) =>
        /\ isdir(fs, output_path)
        /\ isfile(fs, dest)
        /\ fs[dest].content # <<>>
        /\ exitCode = <<0>>

C1_Witness ==
    /\ pc = "done" /\ ~AnyFailed /\ run = 1
    /\ ~exists(fs0, <<"data">>)
    /\ isfile(fs, dest)

\* C2: once the fetch has raised, the write step is never started, the
\* destination is what it was when the run began, and the process can only
\* end with a non-zero exit status.
C2_FetchFailure ==
    Failed("fetch") =>
        /\ ~Ran("write")
        /\ fs[dest] = fs0[dest]
        /\ pc \in {"raise", "done"}
        /\ pc = "done" => (exitCode # <<>> /\ exitCode[1] # 0)

C2_Witness ==
    /\ Failed("fetch") /\ pc = "done"
    /\ ~exists(fs, dest)

\* C3: the starting message is on standard output before the fetch begins;
\* the completion message appears only after the write has returned
\* successfully, and always after the starting message.
C3_MessageOrder ==
    /\ (pc = "fetch" \/ Ran("fetch")) => (stdout # <<>> /\ stdout[1] = StartMsg)
    /\ \A i \in 1..Len(stdout) :
          stdout[i] = SavedMsg(dest) =>
              /\ Succeeded("write")
              /\ \E j \in 1..(i - 1) : stdout[j] = StartMsg

C3_Witness ==
    /\ stdout = <<StartMsg, SavedMsg(dest)>>
    /\ Succeeded("write")

\* C4: after two successive successful runs the destination is the only
\* file, and it holds exactly the serialization of the second run's fetch.
C4_Overwrite ==
    (pc = "done" /\ run >= 2 /\ prevExit = <<0>> /\ exitCode = <<0>>) =>
        /\ {p \in Paths : isfile(fs, p)} = {dest}
        /\ fs[dest] = File(Serialize(fetched[1]))

C4_Witness ==
    /\ pc = "done" /\ run >= 2 /\ prevExit = <<0>> /\ exitCode = <<0>>
    /\ isfile(fs0, dest)
    /\ fs0[dest] # fs[dest]

\* C5: directory preparation on an existing data/raw raises nothing and
\* leaves the filesystem unchanged; whenever it has succeeded, data and
\* data/raw are directories.
C5_MakedirsIdempotent ==
    /\ [][(pc = "makedirs" /\ isdir(fs, output_path)) => (fs' = fs /\ pc' = "print1")]_vars
    /\ [](Succeeded("makedirs") =>
            \A k \in 1..Len(output_path) : isdir(fs, SubSeq(output_path, 1, k)))

C5_Witness ==
    /\ run = 2 /\ pc = "print1"
    /\ isdir(fs0, output_path)
    /\ Succeeded("makedirs")

\* C6: whichever step fails, it is the last step of the run, the completion
\* message is never printed, and the process terminates with a non-zero
\* exit code.
C6_UniformFailure ==
    /\ [](\A i \in 1..Len(trace) :
            ~trace[i].ok =>
                /\ i = Len(trace)
                /\ pc \in {"raise", "done"}
                /\ ~Printed(SavedMsg(dest))
                /\ pc = "done" => exitCode = <<1>>)
    /\ (pc = "raise") ~> (pc = "done" /\ exitCode = <<1>>)

C6_Witness ==
    /\ Failed("write") /\ pc = "done"
    /\ exitCode = <<1>>

\* C7: after a failed write nothing removes or repairs the destination: it
\* stays, to the end of the run, what the failed write left, which is
\* either what was there before (possibly nothing) or a truncated file.
C7_NoCleanup ==
    /\ [][(Failed("write") /\ run' = run) => fs' = fs]_vars
    /\ [](Failed("write") =>
            \/ fs[dest] = fs0[dest]
            \/ isfile(fs, dest) /\ Truncated(fs[dest].content, fetched[1]))

C7_Witness ==
    /\ Failed("write") /\ pc = "done"
    /\ isfile(fs, dest)
    /\ fs[dest].content # <<>>
    /\ fs[dest] # fs0[dest]
    /\ Truncated(fs[dest].content, fetched[1])

\* C8: the steps of a run are a prefix of the fixed order, each taken at
\* most once, and only the last one taken can have failed; after a failed
\* directory creation nothing is printed and nothing is fetched.
C8_FixedOrder ==
    /\ Len(trace) <= Len(Order)
    /\ \A i \in 1..Len(trace) :
          /\ trace[i].step = Order[i]
          /\ i < Len(trace) => trace[i].ok
    /\ Failed("makedirs") => (stdout = <<>> /\ ~Ran("fetch") /\ fetched = <<>>)

C8_Witness ==
    /\ Failed("makedirs") /\ pc = "done"
    /\ isdir(fs, <<"data">>)

\* C9: from the fetch on, adata is the object the fetch returned, and what
\* a successful write stores is its serialization, unchanged.
C9_DatasetUntouched ==
    /\ Succeeded("fetch") => adata = fetched
    /\ Succeeded("write") => (isfile(fs, dest) /\ fs[dest].content = Serialize(fetched[1]))

C9_Witness ==
    /\ Succeeded("write")
    /\ Len(fetched[1]) = MaxCells

\* C10: a run whose fetch failed has created data/raw, has printed the
\* starting message and nothing else, and has left every file that existed
\* when it started, the destination included, as it was.
C10_FetchFailureFrame ==
    Failed("fetch") =>
        /\ isdir(fs, <<"data">>)
        /\ isdir(fs, output_path)
        /\ stdout = <<StartMsg>>
        /\ fs[dest] = fs0[dest]
        /\ \A p \in Paths : exists(fs0, p) => fs[p] = fs0[p]

C10_Witness ==
    /\ Failed("fetch") /\ pc = "done"
    /\ run = 2 /\ prevExit = <<0>>
    /\ isfile(fs, dest)
    /\ fs[dest].content # <<>>

====
